---- MODULE Spec2Model ----
(***************************************************************************)
(* The knowledge ingestion worker of src/workers/ingest_worker.py:         *)
(* main() selects the unprocessed knowledge items and runs process_item on *)
(* each: chunk_text, then per chunk an insert into knowledge_chunks, an    *)
(* embedding call and an insert into knowledge_embeddings, then the        *)
(* processed flag, then generate_summary, the client_summaries upsert and  *)
(* the summary_versions insert.                                            *)
(*                                                                         *)
(* Text is a sequence of one-character strings.  Every call that leaves    *)
(* the process (a store read or write, the embedding call, the chat call)  *)
(* is one step and may raise; nothing in the worker catches an exception,  *)
(* so a raise ends main().                                                 *)
(***************************************************************************)
EXTENDS Integers, Sequences, FiniteSets, TLC

\* ------------------------------------------------------------------ bounds

\* chunk_text's default max_tokens is 350 (ingest_worker.py:41); the model
\* runs the pipeline with this smaller threshold so that texts of a few
\* words already give several chunks.
DefaultMaxTokens == 2
\* Raises (failed external calls) in one behaviour.
MaxFailures == 1
\* ChunkSpec: longest input text (characters) and largest threshold.
MaxTextLen == 6
MaxThreshold == 2

\* --------------------------------------------------------------- the world

Workers == {1, 2}
ItemIds == {1, 2}
Clients == {"A", "B"}

SPACE == " "
NL == "\n"
Whitespace == {SPACE, NL}

VARIABLES
    knowledge_items,      \* table: item id -> row
    knowledge_chunks,     \* table: rows in insertion order, id = position
    knowledge_embeddings, \* table: rows in insertion order, id = position
    client_summaries,     \* table: set of rows
    summary_versions,     \* table: rows in insertion order
    pc,                   \* per worker: the next call of main()/process_item
    items,                \* per worker: main's `items`
    cur,                  \* per worker: position of the for loop of main
    chunks,               \* per worker: process_item's `chunks`
    idx,                  \* per worker: process_item's `idx`
    chunk_id,             \* per worker: process_item's `chunk_id`
    embedding,            \* per worker: process_item's `embedding`
    corpus,               \* per worker: generate_summary's `corpus`
    summary,              \* per worker: process_item's `summary`
    outcome,              \* per worker: how the last run of main() ended
    attempted,            \* per worker: items process_item was called on, this run
    base,                 \* per worker: table sizes when process_item was entered
    failure,              \* per worker: where the last run raised
    selectedDone,         \* per worker: items whose flag was true at the select
    summaryFailed,        \* items whose attempt raised after the flag write
    lastUpsert,           \* per client: the payload of the last upsert
    invoked,              \* per item: calls of generate_summary made for it
    failures,             \* raises so far
    ct,                   \* ChunkSpec: one call of chunk_text
    env                   \* the process environment and the store's vector column

vars == <<knowledge_items, knowledge_chunks, knowledge_embeddings,
          client_summaries, summary_versions, pc, items, cur, chunks, idx,
          chunk_id, embedding, corpus, summary, outcome, attempted, base,
          failure, selectedDone, summaryFailed, lastUpsert, invoked, failures,
          ct, env>>

tables == <<knowledge_items, knowledge_chunks, knowledge_embeddings,
            client_summaries, summary_versions>>

\* ----------------------------------------------------------------- helpers

\* Mutant of split: str.split(" "), the fields between single blanks, empty
\* ones kept.
RECURSIVE fieldsFrom(_, _, _, _)
fieldsFrom(text, i, word, acc) ==
    IF i > Len(text) THEN Append(acc, word)
    ELSE IF text[i] = " "
         THEN fieldsFrom(text, i + 1, <<>>, Append(acc, word))
         ELSE fieldsFrom(text, i + 1, Append(word, text[i]), acc)

splitOnBlank(text) == fieldsFrom(text, 1, <<>>, <<>>)

\* str.split(): the maximal runs of non-whitespace characters, in order.
RECURSIVE splitFrom(_, _, _, _)
splitFrom(text, i, word, acc) ==
    IF i > Len(text)
    THEN IF word = <<>> THEN acc ELSE Append(acc, word)
    ELSE IF text[i] \in Whitespace
         THEN splitFrom(text, i + 1, <<>>,
                        IF word = <<>> THEN acc ELSE Append(acc, word))
         ELSE splitFrom(text, i + 1, Append(word, text[i]), acc)

split(text) == splitFrom(text, 1, <<>>, <<>>)

\* sep.join(parts)
RECURSIVE join(_, _)
join(sep, parts) ==
    IF parts = <<>> THEN <<>>
    ELSE IF Len(parts) = 1 THEN parts[1]
    ELSE parts[1] \o sep \o join(sep, Tail(parts))

\* The test that closes a chunk, after the word was appended.
ChunkFull(current, max_tokens) == Len(current) > max_tokens

\* Mutant of chunkLoop: the words left in current at the end are dropped.
RECURSIVE chunkLoopDropTail(_, _, _, _, _)
chunkLoopDropTail(words, i, current, out, max_tokens) ==
    IF i > Len(words)
    THEN out
    ELSE LET appended == Append(current, words[i]) IN
         IF ChunkFull(appended, max_tokens)
         THEN chunkLoopDropTail(words, i + 1, <<>>,
                                Append(out, join(<<SPACE>>, appended)), max_tokens)
         ELSE chunkLoopDropTail(words, i + 1, appended, out, max_tokens)

\* The for loop of chunk_text, from word i on.
RECURSIVE chunkLoop(_, _, _, _, _)
chunkLoop(words, i, current, out, max_tokens) ==
    IF i > Len(words)
    THEN IF current # <<>> THEN Append(out, join(<<SPACE>>, current)) ELSE out
    ELSE LET appended == Append(current, words[i]) IN
         IF ChunkFull(appended, max_tokens)
         THEN chunkLoop(words, i + 1, <<>>,
                        Append(out, join(<<SPACE>>, appended)), max_tokens)
         ELSE chunkLoop(words, i + 1, appended, out, max_tokens)

chunk_text(text, max_tokens) == chunkLoop(split(text), 1, <<>>, <<>>, max_tokens)

\* tiktoken's encoding is not part of the repository; the count is taken as
\* one token per word.  Nothing checked below reads token_count.
count_tokens(text) == Len(split(text))

\* The embedding service's vector is abstracted to a value fixed by the text.
embed_text(text) == <<Len(text)>>


\* --------------------------------------------------------- the chat payload

\* A JSON object is a function from the keys it holds to their values; an
\* absent value (None, SQL null) is the empty set and a present one {v}.
None == {}
get(d, k) == IF k \in DOMAIN d THEN {d[k]} ELSE None
getOr(d, k, default) == IF k \in DOMAIN d THEN d[k] ELSE default

\* What the model may answer: every field, every field with other values
\* (a sentiment and a score outside the prompt's ranges), one field only.
PayloadFull ==
    ("Short Summary" :> <<"s", "1">>) @@ ("Long Summary" :> <<"l", "1">>) @@
    ("Key Insights" :> << <<"k", "1">>, <<"k", "2">> >>) @@
    ("Next Actions" :> << <<"n", "1">> >>) @@
    ("Risks" :> << <<"r", "1">> >>) @@
    ("Opportunities" :> << <<"o", "1">> >>) @@
    ("Sentiment" :> "positive") @@ ("Priority Score" :> 7)

PayloadOther ==
    ("Short Summary" :> <<"s", "2">>) @@ ("Long Summary" :> <<"l", "2">>) @@
    ("Key Insights" :> << <<"k", "3">> >>) @@
    ("Next Actions" :> << >>) @@
    ("Risks" :> << <<"r", "2">>, <<"r", "3">> >>) @@
    ("Opportunities" :> << <<"o", "2">> >>) @@
    ("Sentiment" :> "mixed") @@ ("Priority Score" :> 11)

PayloadPartial == ("Long Summary" :> <<"l", "3">>)

Payloads == {PayloadFull, PayloadOther, PayloadPartial}

\* The row process_item hands to the client_summaries upsert.
SummaryRow(client_id, s) ==
    [client_id      |-> client_id,
     short_summary  |-> get(s, "Short Summary"),
     long_summary   |-> get(s, "Long Summary"),
     key_insights   |-> join(<<NL>>, getOr(s, "Key Insights", <<>>)),
     next_actions   |-> join(<<NL>>, getOr(s, "Next Actions", <<>>)),
     risks          |-> join(<<NL>>, getOr(s, "Risks", <<>>)),
     opportunities  |-> join(<<NL>>, getOr(s, "Opportunities", <<>>)),
     sentiment      |-> get(s, "Sentiment"),
     priority_score |-> get(s, "Priority Score")]

\* Mutant of Upsert: the table is replaced by the new row.
UpsertReplaceAll(table, row) == {row}

\* Mutant of Upsert: a plain insert, the client's old row is left in place.
UpsertInsert(table, row) == table \cup {row}

\* Mutant of Upsert: a column the new row leaves null keeps its old value.
UpsertCoalesce(table, row) ==
    LET old == {r \in table : r.client_id = row.client_id}
        Keep(new, prev) == IF new = None THEN prev ELSE new
    IN {r \in table : r.client_id # row.client_id} \cup
       (IF old = {} THEN {row}
        ELSE {[row EXCEPT !.short_summary = Keep(@, r.short_summary),
                          !.long_summary = Keep(@, r.long_summary),
                          !.sentiment = Keep(@, r.sentiment),
                          !.priority_score = Keep(@, r.priority_score)] :
                  r \in old})

\* upsert on client_id: the row replaces the client's row, or is inserted.
Upsert(table, row) ==
    {r \in table : r.client_id # row.client_id} \cup {row}

\* ------------------------------------------------------------ the tables

\* Mutant of Unprocessed: the select without its filter.
UnprocessedAny(metadata) == TRUE

\* Mutant of Unprocessed: the filter without its eq.false alternative.
UnprocessedAbsent(metadata) == "processed" \notin DOMAIN metadata

\* The filter of main's select: processed is false, or is absent.
Unprocessed(metadata) ==
    \/ "processed" \notin DOMAIN metadata
    \/ metadata["processed"] = FALSE

IsProcessed(i) ==
    /\ "processed" \in DOMAIN knowledge_items[i].metadata
    /\ knowledge_items[i].metadata["processed"] = TRUE

\* The ids of a set in increasing order (the order the select returns rows in).
RECURSIVE SortedIds(_)
SortedIds(S) ==
    IF S = {} THEN <<>>
    ELSE LET m == CHOOSE x \in S : \A y \in S : x <= y
         IN <<m>> \o SortedIds(S \ {m})

SelectUnprocessed ==
    LET ids == SortedIds({i \in ItemIds : Unprocessed(knowledge_items[i].metadata)})
    IN [k \in 1..Len(ids) |-> knowledge_items[ids[k]]]

\* Mutant of ChunkRow: chunk_index counted from one.
ChunkRowOneBased(id, item_id, client_id, chunk_index, content) ==
    [id |-> id, item_id |-> item_id, client_id |-> client_id,
     chunk_index |-> chunk_index + 1, content |-> content,
     token_count |-> count_tokens(content)]

\* The row process_item inserts into knowledge_chunks, with the id the store
\* gives it.
ChunkRow(id, item_id, client_id, chunk_index, content) ==
    [id |-> id, item_id |-> item_id, client_id |-> client_id,
     chunk_index |-> chunk_index, content |-> content,
     token_count |-> count_tokens(content)]

EmbeddingRow(id, cid, client_id, vector) ==
    [id |-> id, chunk_id |-> cid, client_id |-> client_id, embedding |-> vector]

\* Mutant of MarkedMetadata: the metadata replaced by the flag alone.
MarkedMetadataOnlyFlag(item) == ("processed" :> TRUE)

\* Mutant of MarkedMetadata: the metadata written back without the flag.
MarkedMetadataNoFlag(item) == item.metadata

\* {**item.get("metadata", {}), "processed": True}
MarkedMetadata(item) ==
    [k \in DOMAIN item.metadata \cup {"processed"} |->
        IF k = "processed" THEN TRUE ELSE item.metadata[k]]

\* Mutant of ContentsOf: the select without its client_id filter.
RECURSIVE ContentsOfAll(_, _)
ContentsOfAll(rows, client_id) ==
    IF rows = <<>> THEN <<>>
    ELSE <<Head(rows).content>> \o ContentsOfAll(Tail(rows), client_id)

\* generate_summary's select and join: the contents of the client's chunks.
RECURSIVE ContentsOf(_, _)
ContentsOf(rows, client_id) ==
    IF rows = <<>> THEN <<>>
    ELSE (IF Head(rows).client_id = client_id THEN <<Head(rows).content>> ELSE <<>>)
         \o ContentsOf(Tail(rows), client_id)

Corpus(client_id) == join(<<NL, NL>>, ContentsOf(knowledge_chunks, client_id))

\* ------------------------------------------------------------------ Init

\* A text of n one-letter words.
Text(n) == join(<<SPACE>>, [i \in 1..n |-> <<IF i % 2 = 1 THEN "a" ELSE "b">>])

\* No word, blanks only, one chunk, two chunks, three chunks.
InitTexts == {<<>>, <<SPACE>>, Text(1), Text(DefaultMaxTokens + 2),
              Text(2 * DefaultMaxTokens + 3)}

InitMetadata == {("source" :> "upload"),
                 ("source" :> "upload") @@ ("processed" :> FALSE)}

\* The vector length of text-embedding-3-small.
EmbeddingDimension == 1536

\* Both keys are set and the store's vector column has the model's dimension.
GoodEnv == [SUPABASE_SERVICE_ROLE_KEY |-> TRUE, OPENAI_API_KEY |-> TRUE,
            store_dimension |-> EmbeddingDimension]

NoFailure == [at |-> "none", item |-> 0, idx |-> 0]
NoBase == [chunks |-> 0, embeddings |-> 0, versions |-> 0, invoked |-> 0]
NoCall == [text |-> <<>>, max_tokens |-> 0, result |-> <<>>, returned |-> FALSE]

WorkerInit ==
    /\ pc = [w \in Workers |-> "start"]
    /\ items = [w \in Workers |-> <<>>]
    /\ cur = [w \in Workers |-> 0]
    /\ chunks = [w \in Workers |-> <<>>]
    /\ idx = [w \in Workers |-> 0]
    /\ chunk_id = [w \in Workers |-> 0]
    /\ embedding = [w \in Workers |-> <<>>]
    /\ corpus = [w \in Workers |-> <<>>]
    /\ summary = [w \in Workers |-> <<>>]
    /\ outcome = [w \in Workers |-> "none"]
    /\ attempted = [w \in Workers |-> {}]
    /\ base = [w \in Workers |-> NoBase]
    /\ failure = [w \in Workers |-> NoFailure]
    /\ selectedDone = [w \in Workers |-> {}]
    /\ summaryFailed = {}
    /\ lastUpsert = [c \in Clients |-> None]
    /\ invoked = [i \in ItemIds |-> 0]
    /\ failures = 0

\* The items exist, unprocessed, before the worker runs; the other tables
\* are empty.
Init ==
    /\ \E client \in [ItemIds -> Clients], text \in [ItemIds -> InitTexts],
          meta \in [ItemIds -> InitMetadata] :
          knowledge_items = [i \in ItemIds |->
              [id |-> i, client_id |-> client[i], raw_text |-> text[i],
               metadata |-> meta[i]]]
    /\ knowledge_chunks = <<>>
    /\ knowledge_embeddings = <<>>
    /\ client_summaries = {}
    /\ summary_versions = <<>>
    /\ WorkerInit
    /\ ct = NoCall
    /\ env = GoodEnv


\* --------------------------------------------------------------- the worker

Item(w) == items[w][cur[w]]

locals == <<items, cur, chunks, idx, chunk_id, embedding, corpus, summary>>

CanRaise == failures < MaxFailures

\* A pc at which process_item has written the processed flag.
AfterFlag == {"select_chunks", "chat_completion", "upsert_summary", "insert_version"}

\* Mutant of Unwind: the failed call is made again.
UnwindRetry(at) == at

\* Mutant of Unwind: a failed embedding call is swallowed and process_item
\* goes on to step 5.
UnwindSwallowed(at) == IF at = "embed_text" THEN "mark_processed" ELSE "start"

\* Where an exception raised by the call at `at` is handled: there is no
\* try in process_item or main, so main() ends.
Unwind(at) == "start"

\* Mutant of Raise: the rows the failed attempt inserted are rolled back.
RaiseRollback(w) ==
    /\ CanRaise
    /\ failures' = failures + 1
    /\ pc' = [pc EXCEPT ![w] = Unwind(pc[w])]
    /\ outcome' = [outcome EXCEPT ![w] = "raised"]
    /\ failure' = [failure EXCEPT ![w] =
           [at |-> pc[w],
            item |-> IF pc[w] = "start" THEN 0 ELSE Item(w).id,
            idx |-> idx[w]]]
    /\ summaryFailed' = IF pc[w] \in AfterFlag
                        THEN summaryFailed \cup {Item(w).id}
                        ELSE summaryFailed
    /\ chunks' = [chunks EXCEPT ![w] = <<>>]
    /\ idx' = [idx EXCEPT ![w] = 0]
    /\ chunk_id' = [chunk_id EXCEPT ![w] = 0]
    /\ embedding' = [embedding EXCEPT ![w] = <<>>]
    /\ corpus' = [corpus EXCEPT ![w] = <<>>]
    /\ summary' = [summary EXCEPT ![w] = <<>>]
    /\ items' = IF pc[w] = "start" THEN [items EXCEPT ![w] = <<>>] ELSE items
    /\ attempted' = IF pc[w] = "start" THEN [attempted EXCEPT ![w] = {}] ELSE attempted
    /\ knowledge_chunks' =
           IF pc[w] \in {"embed_text", "insert_embedding", "insert_chunk"}
           THEN SubSeq(knowledge_chunks, 1, base[w].chunks) ELSE knowledge_chunks
    /\ knowledge_embeddings' =
           IF pc[w] \in {"embed_text", "insert_embedding", "insert_chunk"}
           THEN SubSeq(knowledge_embeddings, 1, base[w].embeddings)
           ELSE knowledge_embeddings
    /\ UNCHANGED <<knowledge_items, client_summaries, summary_versions, cur, base,
                   selectedDone, lastUpsert, invoked, ct, env>>

\* An exception: nothing catches it, main() ends and its locals are gone.
Raise(w) ==
    /\ CanRaise
    /\ failures' = failures + 1
    /\ pc' = [pc EXCEPT ![w] = Unwind(pc[w])]
    /\ outcome' = [outcome EXCEPT ![w] = "raised"]
    /\ failure' = [failure EXCEPT ![w] =
           [at |-> pc[w],
            item |-> IF pc[w] = "start" THEN 0 ELSE Item(w).id,
            idx |-> idx[w]]]
    /\ summaryFailed' = IF pc[w] \in AfterFlag
                        THEN summaryFailed \cup {Item(w).id}
                        ELSE summaryFailed
    /\ chunks' = [chunks EXCEPT ![w] = <<>>]
    /\ idx' = [idx EXCEPT ![w] = 0]
    /\ chunk_id' = [chunk_id EXCEPT ![w] = 0]
    /\ embedding' = [embedding EXCEPT ![w] = <<>>]
    /\ corpus' = [corpus EXCEPT ![w] = <<>>]
    /\ summary' = [summary EXCEPT ![w] = <<>>]
    /\ items' = IF pc[w] = "start" THEN [items EXCEPT ![w] = <<>>] ELSE items
    /\ attempted' = IF pc[w] = "start" THEN [attempted EXCEPT ![w] = {}] ELSE attempted
    /\ UNCHANGED <<tables, cur, base, selectedDone, lastUpsert, invoked, ct, env>>

\* The head of main's for loop at position k of `its`: process_item is
\* entered on the item there and runs up to its first store call (chunk_text
\* is local), or the loop is over and main() returns.  Evaluated after the
\* step's table writes.
ForItem(w, its, k, att) ==
    /\ cur' = [cur EXCEPT ![w] = k]
    /\ idx' = [idx EXCEPT ![w] = 0]
    /\ chunk_id' = [chunk_id EXCEPT ![w] = 0]
    /\ embedding' = [embedding EXCEPT ![w] = <<>>]
    /\ corpus' = [corpus EXCEPT ![w] = <<>>]
    /\ summary' = [summary EXCEPT ![w] = <<>>]
    /\ LET more == k <= Len(its)
           cs == IF more THEN chunk_text(its[k].raw_text, DefaultMaxTokens) ELSE <<>>
       IN /\ pc' = [pc EXCEPT ![w] =
                 IF ~more THEN "start"
                 ELSE IF cs = <<>> THEN "mark_processed" ELSE "insert_chunk"]
          /\ outcome' = [outcome EXCEPT ![w] = IF more THEN "running" ELSE "complete"]
          /\ chunks' = [chunks EXCEPT ![w] = cs]
          /\ attempted' = [attempted EXCEPT ![w] =
                 IF more THEN att \cup {its[k].id} ELSE att]
          /\ base' = IF more
                     THEN [base EXCEPT ![w] =
                              [chunks |-> Len(knowledge_chunks'),
                               embeddings |-> Len(knowledge_embeddings'),
                               versions |-> Len(summary_versions'),
                               invoked |-> invoked[its[k].id]]]
                     ELSE base

\* The module's environment section: os.environ[...] of a key that is not
\* set raises KeyError, so main() is never called.
EnvironmentLoaded == env.SUPABASE_SERVICE_ROLE_KEY /\ env.OPENAI_API_KEY

load_environment(w) ==
    /\ pc[w] = "start"
    /\ ~EnvironmentLoaded
    /\ outcome' = [outcome EXCEPT ![w] = "raised"]
    /\ failure' = [failure EXCEPT ![w] = [at |-> "environment", item |-> 0, idx |-> 0]]
    /\ UNCHANGED <<tables, pc, locals, attempted, base, selectedDone, summaryFailed,
                   lastUpsert, invoked, failures, ct, env>>

\* main(): the select of the unprocessed items.
main_select(w) ==
    /\ pc[w] = "start"
    /\ EnvironmentLoaded
    /\ \/ \E selected \in {SelectUnprocessed} :
          /\ items' = [items EXCEPT ![w] = selected]
          /\ selectedDone' = [selectedDone EXCEPT ![w] =
                 {i \in ItemIds : IsProcessed(i)}]
          /\ failure' = [failure EXCEPT ![w] = NoFailure]
          /\ UNCHANGED <<tables, summaryFailed, lastUpsert, invoked, failures, ct, env>>
          /\ ForItem(w, selected, 1, {})
       \/ /\ Raise(w)

\* Mutant of ReturnedId: the chunk's index taken for its id.
ReturnedIndex(chunk_row) == chunk_row.chunk_index

\* chunk_row["id"] of the row the insert returns.
ReturnedId(chunk_row) == chunk_row.id

\* process_item step 2: the insert into knowledge_chunks.
insert_chunk(w) ==
    /\ pc[w] = "insert_chunk"
    /\ \/ /\ knowledge_chunks' = Append(knowledge_chunks,
                 ChunkRow(Len(knowledge_chunks) + 1, Item(w).id, Item(w).client_id,
                          idx[w], chunks[w][idx[w] + 1]))
          /\ chunk_id' = [chunk_id EXCEPT ![w] =
                 ReturnedId(knowledge_chunks'[Len(knowledge_chunks')])]
          /\ pc' = [pc EXCEPT ![w] = "embed_text"]
          /\ UNCHANGED <<knowledge_items, knowledge_embeddings, client_summaries,
                         summary_versions, items, cur, chunks, idx, embedding,
                         corpus, summary, outcome, attempted, base, failure,
                         selectedDone, summaryFailed, lastUpsert, invoked, failures, ct, env>>
       \/ /\ Raise(w)

\* process_item step 3: the embedding call.
embed_chunk(w) ==
    /\ pc[w] = "embed_text"
    /\ \/ /\ embedding' = [embedding EXCEPT ![w] = embed_text(chunks[w][idx[w] + 1])]
          /\ pc' = [pc EXCEPT ![w] = "insert_embedding"]
          /\ UNCHANGED <<tables, items, cur, chunks, idx, chunk_id, corpus, summary,
                         outcome, attempted, base, failure, selectedDone,
                         summaryFailed, lastUpsert, invoked, failures, ct, env>>
       \/ /\ Raise(w)

\* Mutant of AfterEmbedding: step 5 is skipped, generate_summary follows
\* the for loop.
AfterEmbeddingNoFlag(i, n) == IF i < n THEN "insert_chunk" ELSE "select_chunks"

\* Mutant of AfterEmbedding: step 5 inside the for loop.
AfterEmbeddingFirst(i, n) == "mark_processed"

\* The for loop of process_item after chunk i - 1 of n: the next chunk, or
\* step 5 once the loop is over.
AfterEmbedding(i, n) == IF i < n THEN "insert_chunk" ELSE "mark_processed"

\* The store takes a vector only if it has the dimension of its column; the
\* worker never compares the two itself.
StoreAccepts(vector) == env.store_dimension = EmbeddingDimension

\* process_item step 3: the insert into knowledge_embeddings, then the next
\* chunk of the for loop or, after the last, step 5.
insert_embedding(w) ==
    /\ pc[w] = "insert_embedding"
    /\ \/ /\ StoreAccepts(embedding[w])
          /\ knowledge_embeddings' = Append(knowledge_embeddings,
                 EmbeddingRow(Len(knowledge_embeddings) + 1, chunk_id[w],
                              Item(w).client_id, embedding[w]))
          /\ idx' = [idx EXCEPT ![w] = idx[w] + 1]
          /\ pc' = [pc EXCEPT ![w] = AfterEmbedding(idx[w] + 1, Len(chunks[w]))]
          /\ UNCHANGED <<knowledge_items, knowledge_chunks, client_summaries,
                         summary_versions, items, cur, chunks, chunk_id, embedding,
                         corpus, summary, outcome, attempted, base, failure,
                         selectedDone, summaryFailed, lastUpsert, invoked, failures, ct, env>>
       \/ /\ Raise(w)

\* process_item step 5: the update of the item's metadata; generate_summary
\* is then called and runs up to its select.
mark_processed(w) ==
    /\ pc[w] = "mark_processed"
    /\ \/ /\ knowledge_items' = [knowledge_items EXCEPT
                 ![Item(w).id].metadata = MarkedMetadata(Item(w))]
          /\ pc' = [pc EXCEPT ![w] = "select_chunks"]
          /\ invoked' = [invoked EXCEPT ![Item(w).id] = @ + 1]
          /\ UNCHANGED <<knowledge_chunks, knowledge_embeddings, client_summaries,
                         summary_versions, locals, outcome, attempted, base,
                         failure, selectedDone, summaryFailed, lastUpsert,
                         failures, ct, env>>
       \/ /\ Raise(w)

\* generate_summary: the select of the client's chunks and the join.
select_chunks(w) ==
    /\ pc[w] = "select_chunks"
    /\ \/ /\ corpus' = [corpus EXCEPT ![w] = Corpus(Item(w).client_id)]
          /\ pc' = [pc EXCEPT ![w] = "chat_completion"]
          /\ UNCHANGED <<tables, items, cur, chunks, idx, chunk_id, embedding,
                         summary, outcome, attempted, base, failure, selectedDone,
                         summaryFailed, lastUpsert, invoked, failures, ct, env>>
       \/ /\ Raise(w)

\* generate_summary: the chat call and json.loads of its answer.
chat_completion(w) ==
    /\ pc[w] = "chat_completion"
    /\ \/ /\ \E payload \in Payloads : summary' = [summary EXCEPT ![w] = payload]
          /\ pc' = [pc EXCEPT ![w] = "upsert_summary"]
          /\ UNCHANGED <<tables, items, cur, chunks, idx, chunk_id, embedding,
                         corpus, outcome, attempted, base, failure, selectedDone,
                         summaryFailed, lastUpsert, invoked, failures, ct, env>>
       \/ /\ Raise(w)

\* process_item step 6: the upsert into client_summaries.
upsert_summary(w) ==
    /\ pc[w] = "upsert_summary"
    /\ \/ /\ client_summaries' = Upsert(client_summaries,
                 SummaryRow(Item(w).client_id, summary[w]))
          /\ lastUpsert' = [lastUpsert EXCEPT ![Item(w).client_id] = {summary[w]}]
          /\ pc' = [pc EXCEPT ![w] = "insert_version"]
          /\ UNCHANGED <<knowledge_items, knowledge_chunks, knowledge_embeddings,
                         summary_versions, locals, outcome, attempted, base,
                         failure, selectedDone, summaryFailed, invoked, failures,
                         ct, env>>
       \/ /\ Raise(w)

\* Mutant of InsertVersion: the client's version row is replaced.
InsertVersionKeyed(table, row) ==
    LET Others(r) == r.client_id # row.client_id
    IN Append(SelectSeq(table, Others), row)

\* supabase.table("summary_versions").insert(row): a new row, whatever rows
\* the client already has.
InsertVersion(table, row) == Append(table, row)

\* process_item step 6: the insert into summary_versions; process_item
\* returns and main's for loop goes on.
insert_version(w) ==
    /\ pc[w] = "insert_version"
    /\ \/ /\ summary_versions' = InsertVersion(summary_versions,
                 [client_id |-> Item(w).client_id, summary_snapshot |-> summary[w]])
          /\ UNCHANGED <<knowledge_items, knowledge_chunks, knowledge_embeddings,
                         client_summaries, items, failure, selectedDone,
                         summaryFailed, lastUpsert, invoked, failures, ct, env>>
          /\ ForItem(w, items[w], cur[w] + 1, attempted[w])
       \/ /\ Raise(w)

\* One scheduled run of main() at a time.
Next ==
    \/ main_select(1)
    \/ insert_chunk(1)
    \/ embed_chunk(1)
    \/ insert_embedding(1)
    \/ mark_processed(1)
    \/ select_chunks(1)
    \/ chat_completion(1)
    \/ upsert_summary(1)
    \/ insert_version(1)

Spec == Init /\ [][Next]_vars

\* main() keeps being invoked and a call that can go on does: with the
\* raises bounded, every external call succeeds from some point on.
\* The initial states with item 1 owned by client "A": the two clients are
\* interchangeable, so these stand for all of Init.
FairInit == Init /\ knowledge_items[1].client_id = "A"

FairSpec == FairInit /\ [][Next]_vars /\ WF_vars(Next)


\* Two runs of main() overlapping in time (two scheduled invocations, each
\* its own process with its own locals): their calls interleave one by one.
\* Both items are unprocessed and belong to client "A"; item 1 has at most
\* one chunk and item 2 no word.
ConcInit ==
    /\ \E text \in {<<>>, Text(1)} :
          knowledge_items =
              (1 :> [id |-> 1, client_id |-> "A", raw_text |-> text,
                     metadata |-> ("source" :> "upload")]) @@
              (2 :> [id |-> 2, client_id |-> "A", raw_text |-> <<>>,
                     metadata |-> ("source" :> "upload")])
    /\ knowledge_chunks = <<>>
    /\ knowledge_embeddings = <<>>
    /\ client_summaries = {}
    /\ summary_versions = <<>>
    /\ WorkerInit
    /\ ct = NoCall
    /\ env = GoodEnv

ConcNext ==
    \E w \in Workers :
        \/ main_select(w)
        \/ insert_chunk(w)
        \/ embed_chunk(w)
        \/ insert_embedding(w)
        \/ mark_processed(w)
        \/ select_chunks(w)
        \/ chat_completion(w)
        \/ upsert_summary(w)
        \/ insert_version(w)

ConcSpec == ConcInit /\ [][ConcNext]_vars

\* One run of main() at a time under any configuration: a key may be missing
\* and the store's vector column may have another dimension than the model's.
Envs == [SUPABASE_SERVICE_ROLE_KEY : BOOLEAN, OPENAI_API_KEY : BOOLEAN,
         store_dimension : {EmbeddingDimension, EmbeddingDimension \div 2}]

ConfigInit ==
    /\ \E client \in [ItemIds -> Clients], text \in [ItemIds -> {<<>>, Text(1)}] :
          knowledge_items = [i \in ItemIds |->
              [id |-> i, client_id |-> client[i], raw_text |-> text[i],
               metadata |-> ("source" :> "upload")]]
    /\ knowledge_chunks = <<>>
    /\ knowledge_embeddings = <<>>
    /\ client_summaries = {}
    /\ summary_versions = <<>>
    /\ WorkerInit
    /\ ct = NoCall
    /\ env \in Envs

ConfigNext ==
    \/ load_environment(1)
    \/ main_select(1)
    \/ insert_chunk(1)
    \/ embed_chunk(1)
    \/ insert_embedding(1)
    \/ mark_processed(1)
    \/ select_chunks(1)
    \/ chat_completion(1)
    \/ upsert_summary(1)
    \/ insert_version(1)

ConfigSpec == ConfigInit /\ [][ConfigNext]_vars

\* ------------------------------------------------- chunk_text on its own

Chars == {"a", "b", SPACE}

TextsUpTo(n) == UNION {[1..k -> Chars] : k \in 0..n}

\* The worker is not running: the tables hold one unprocessed item each.
Quiet ==
    /\ knowledge_items = [i \in ItemIds |->
           [id |-> i, client_id |-> "A", raw_text |-> <<>>,
            metadata |-> ("source" :> "upload")]]
    /\ knowledge_chunks = <<>>
    /\ knowledge_embeddings = <<>>
    /\ client_summaries = {}
    /\ summary_versions = <<>>
    /\ WorkerInit
    /\ env = GoodEnv

ChunkInit ==
    /\ Quiet
    /\ \E text \in TextsUpTo(MaxTextLen), max_tokens \in 1..MaxThreshold :
          ct = [text |-> text, max_tokens |-> max_tokens, result |-> <<>>,
                returned |-> FALSE]

\* One call chunk_text(text, max_tokens).
call_chunk_text ==
    /\ ~ct.returned
    /\ ct' = [ct EXCEPT !.result = chunk_text(ct.text, ct.max_tokens),
                        !.returned = TRUE]
    /\ UNCHANGED <<tables, pc, locals, outcome, attempted, base, failure,
                   selectedDone, summaryFailed, lastUpsert, invoked, failures,
                   env>>

ChunkNext == call_chunk_text

ChunkSpec == ChunkInit /\ [][ChunkNext]_vars

\* ------------------------------------------------------------------ claims

\* What the claims speak of: the rows of an item, the embeddings of a chunk
\* row, the steps that are a select of main().
ChunkIdsOf(i) ==
    {k \in 1..Len(knowledge_chunks) : knowledge_chunks[k].item_id = i}

EmbeddingIdsOf(chunk) ==
    {e \in 1..Len(knowledge_embeddings) : knowledge_embeddings[e].chunk_id = chunk}

ChunksOfItem(i) == chunk_text(knowledge_items[i].raw_text, DefaultMaxTokens)

HasChunk(chunk) == \E k \in 1..Len(knowledge_chunks) : knowledge_chunks[k].id = chunk

\* C1: if an item's processed flag is true, every knowledge_chunks row of the
\* item has exactly one knowledge_embeddings row referencing it.  (Stated as
\* claimed; a retry after a failed attempt leaves the failed attempt's rows.)
C1_ProcessedChunksHaveOneEmbedding ==
    \A i \in ItemIds :
        IsProcessed(i) =>
            \A k \in ChunkIdsOf(i) :
                Cardinality(EmbeddingIdsOf(knowledge_chunks[k].id)) = 1

\* C2: the rows of a processed item whose text yields N chunks carry the
\* chunk_index values 0..N-1, each on exactly one row.  (Stated as claimed; a
\* retry inserts the indices of the failed attempt again.)
C2_IndicesContiguousOnce ==
    \A i \in ItemIds :
        IsProcessed(i) =>
            /\ \A j \in 0..(Len(ChunksOfItem(i)) - 1) :
                   Cardinality({k \in ChunkIdsOf(i) :
                                   knowledge_chunks[k].chunk_index = j}) = 1
            /\ \A k \in ChunkIdsOf(i) :
                   knowledge_chunks[k].chunk_index \in 0..(Len(ChunksOfItem(i)) - 1)

\* C4: a failure while processing one item is not raised out of the run of
\* main(): when the run has ended, process_item was called on every item the
\* run selected.  (Stated as claimed; main() has no try.)
C4_LaterItemsStillAttempted ==
    \A w \in Workers :
        outcome[w] \in {"complete", "raised"} =>
            \A k \in 1..Len(items[w]) : items[w][k].id \in attempted[w]

\* C3: every chunk returned by chunk_text(text, T), T >= 1, holds at most T
\* whitespace-delimited words.  (Stated as claimed; the code closes a chunk
\* only once it holds more than T words.)
C3_ChunkAtMostThreshold ==
    ct.returned =>
        \A k \in 1..Len(ct.result) : Len(split(ct.result[k])) <= ct.max_tokens


\* The rows of item i in the two chunk tables, in insertion order.
ChunkRowsOf(i) ==
    LET Mine(r) == r.item_id = i IN SelectSeq(knowledge_chunks, Mine)

EmbeddingRowsOf(i) ==
    LET Mine(r) == \E k \in ChunkIdsOf(i) : knowledge_chunks[k].id = r.chunk_id
    IN SelectSeq(knowledge_embeddings, Mine)

Local(w) == <<pc[w], items[w], cur[w], outcome[w], attempted[w], failure[w],
              selectedDone[w]>>

\* A step that is worker w's select of main().
SelectStep(w) ==
    /\ pc[w] = "start"
    /\ outcome'[w] \in {"running", "complete"}
    /\ Local(w)' # Local(w)

\* C5: an item whose processed flag is true is not selected by a run of
\* main(), and a run that selected after the flag became true inserts no
\* knowledge_chunks or knowledge_embeddings row of that item.
C5_ProcessedNeverReprocessed ==
    [][/\ \A w \in Workers :
              SelectStep(w) =>
                  \A k \in 1..Len(items'[w]) : ~IsProcessed(items'[w][k].id)
       /\ \A k \in (Len(knowledge_chunks) + 1)..Len(knowledge_chunks') :
              \E w \in Workers :
                  /\ pc[w] = "insert_chunk" /\ pc'[w] # pc[w]
                  /\ knowledge_chunks'[k].item_id = Item(w).id
                  /\ knowledge_chunks'[k].item_id \notin selectedDone[w]
       /\ \A e \in (Len(knowledge_embeddings) + 1)..Len(knowledge_embeddings') :
              \E w \in Workers :
                  /\ pc[w] = "insert_embedding" /\ pc'[w] # pc[w]
                  /\ \E k \in ChunkIdsOf(Item(w).id) :
                         knowledge_chunks[k].id = knowledge_embeddings'[e].chunk_id
                  /\ Item(w).id \notin selectedDone[w]
      ]_vars

\* A run that selected while an item was already processed is storing rows
\* of another item.
C5_Witness ==
    /\ pc[1] = "insert_embedding"
    /\ \E i \in selectedDone[1] : IsProcessed(i) /\ ChunkIdsOf(i) # {}

\* The attempt of worker w has stored, for every chunk of item i's text, the
\* chunk row and an embedding row of it.
AttemptStored(w, i) ==
    \A j \in 1..Len(ChunksOfItem(i)) :
        \E k \in ChunkIdsOf(i) :
            /\ k > base[w].chunks
            /\ knowledge_chunks[k].chunk_index = j - 1
            /\ knowledge_chunks[k].content = ChunksOfItem(i)[j]
            /\ \E e \in EmbeddingIdsOf(knowledge_chunks[k].id) :
                   e > base[w].embeddings

\* C6: the processed flag is set only on full success: the step that sets it
\* is made by an attempt that has raised nowhere and has stored the chunk row
\* and the embedding row of every chunk index 0..N-1 of the item's text.
C6_FlagOnlyOnFullSuccess ==
    [][\A i \in ItemIds :
           (~IsProcessed(i) /\ IsProcessed(i)') =>
               \E w \in Workers :
                   /\ pc[w] = "mark_processed"
                   /\ Item(w).id = i
                   /\ outcome[w] = "running"
                   /\ failure[w] = NoFailure
                   /\ AttemptStored(w, i)
      ]_vars

\* The flag of a three-chunk item was just set.
C6_Witness ==
    /\ pc[1] = "select_chunks"
    /\ Len(chunks[1]) = 3
    /\ IsProcessed(Item(1).id)
    /\ Len(ChunkRowsOf(Item(1).id)) >= 3

\* C7: once an item's attempt has raised in the summary part (after its
\* chunks and embeddings were stored and its flag written), the flag is and
\* stays true, no later select returns the item, and its chunk and embedding
\* rows stay as they are.
C7_SummaryFailureKeepsItemProcessed ==
    [][/\ \A i \in summaryFailed' : IsProcessed(i)'
       /\ \A i \in summaryFailed :
              /\ IsProcessed(i)
              /\ ChunkRowsOf(i)' = ChunkRowsOf(i)
              /\ EmbeddingRowsOf(i)' = EmbeddingRowsOf(i)
              /\ \A w \in Workers :
                     SelectStep(w) =>
                         \A k \in 1..Len(items'[w]) : items'[w][k].id # i
      ]_vars

\* After a raise in the summary part of one item, a later run of main() has
\* completed and processed another item.
C7_Witness ==
    /\ outcome[1] = "complete"
    /\ \E i \in summaryFailed :
           /\ ChunkRowsOf(i) # <<>>
           /\ \E j \in ItemIds \ {i} : IsProcessed(j) /\ ChunkRowsOf(j) # <<>>

\* C8: when the embedding call for chunk k of an item has raised, at the end
\* of that attempt the flag is not true, the chunk and embedding rows of
\* indices 0..k-1 are stored, no chunk or embedding row of an index above k
\* was inserted, generate_summary was not called, and the next select
\* returns the item.
C8_EmbeddingFailureLeavesItemPending ==
    \A w \in Workers :
        (outcome[w] = "raised" /\ failure[w].at = "embed_text") =>
            LET i == failure[w].item
                k == failure[w].idx
            IN /\ ~IsProcessed(i)
               /\ \A j \in 0..(k - 1) :
                      \E r \in ChunkIdsOf(i) :
                          /\ r > base[w].chunks
                          /\ knowledge_chunks[r].chunk_index = j
                          /\ \E e \in EmbeddingIdsOf(knowledge_chunks[r].id) :
                                 e > base[w].embeddings
               /\ \A r \in ChunkIdsOf(i) :
                      r > base[w].chunks => knowledge_chunks[r].chunk_index <= k
               /\ \A r \in ChunkIdsOf(i) :
                      \A e \in EmbeddingIdsOf(knowledge_chunks[r].id) :
                          e > base[w].embeddings =>
                              knowledge_chunks[r].chunk_index <= k
               /\ invoked[i] = base[w].invoked
               /\ Len(summary_versions) = base[w].versions
               /\ \E n \in 1..Len(SelectUnprocessed) : SelectUnprocessed[n].id = i

\* The embedding call for chunk 1 of a three-chunk item has raised.
C8_Witness ==
    /\ outcome[1] = "raised"
    /\ failure[1].at = "embed_text"
    /\ failure[1].idx = 1
    /\ Len(ChunksOfItem(failure[1].item)) = 3
    /\ Len(ChunkRowsOf(failure[1].item)) = 2

\* C9: every knowledge_embeddings row references a knowledge_chunks row that
\* exists, and while an attempt computes or inserts the embedding of a chunk
\* that chunk's row is already stored.
C9_EmbeddingReferencesStoredChunk ==
    /\ \A e \in 1..Len(knowledge_embeddings) :
           HasChunk(knowledge_embeddings[e].chunk_id)
    /\ \A w \in Workers :
           pc[w] \in {"embed_text", "insert_embedding"} =>
               \E k \in ChunkIdsOf(Item(w).id) :
                   /\ knowledge_chunks[k].id = chunk_id[w]
                   /\ knowledge_chunks[k].chunk_index = idx[w]

\* A chunk row without an embedding beside a chunk row with one.
C9_Witness ==
    /\ \E k \in 1..Len(knowledge_chunks) :
           EmbeddingIdsOf(knowledge_chunks[k].id) = {}
    /\ \E k \in 1..Len(knowledge_chunks) :
           EmbeddingIdsOf(knowledge_chunks[k].id) # {}

\* C10: a client's client_summaries row holds exactly the values derived from
\* the payload of the last upsert for the client, field by field, absent
\* where that payload lacks the field: nothing of an earlier payload is left.
C10_SummaryIsLastPayload ==
    \A c \in Clients :
        lastUpsert[c] # None =>
            LET p == CHOOSE x \in lastUpsert[c] : TRUE IN
            {r \in client_summaries : r.client_id = c} =
                {[client_id      |-> c,
                  short_summary  |-> IF "Short Summary" \in DOMAIN p
                                     THEN {p["Short Summary"]} ELSE {},
                  long_summary   |-> IF "Long Summary" \in DOMAIN p
                                     THEN {p["Long Summary"]} ELSE {},
                  key_insights   |-> IF "Key Insights" \in DOMAIN p
                                     THEN join(<<NL>>, p["Key Insights"]) ELSE <<>>,
                  next_actions   |-> IF "Next Actions" \in DOMAIN p
                                     THEN join(<<NL>>, p["Next Actions"]) ELSE <<>>,
                  risks          |-> IF "Risks" \in DOMAIN p
                                     THEN join(<<NL>>, p["Risks"]) ELSE <<>>,
                  opportunities  |-> IF "Opportunities" \in DOMAIN p
                                     THEN join(<<NL>>, p["Opportunities"]) ELSE <<>>,
                  sentiment      |-> IF "Sentiment" \in DOMAIN p
                                     THEN {p["Sentiment"]} ELSE {},
                  priority_score |-> IF "Priority Score" \in DOMAIN p
                                     THEN {p["Priority Score"]} ELSE {}]}

\* The second summarization of a client, whose first payload held every
\* field, has upserted a payload that lacks all but one.
C10_Witness ==
    /\ pc[1] = "insert_version"
    /\ lastUpsert[Item(1).client_id] = {PayloadPartial}
    /\ \E v \in 1..Len(summary_versions) :
           /\ summary_versions[v].client_id = Item(1).client_id
           /\ summary_versions[v].summary_snapshot = PayloadFull


\* The items of client c whose process_item has returned: flagged, with
\* generate_summary called, not raised in the summary part, and not under way.
Summarized(c) ==
    {i \in ItemIds :
        /\ knowledge_items[i].client_id = c
        /\ IsProcessed(i)
        /\ invoked[i] >= 1
        /\ i \notin summaryFailed
        /\ \A w \in Workers : ~(pc[w] \in AfterFlag /\ Item(w).id = i)}

VersionsOf(c) ==
    LET Mine(r) == r.client_id = c IN SelectSeq(summary_versions, Mine)

\* C11: summary_versions is append-only: a step leaves every existing row in
\* place and adds at most one, the added row is the full payload of the
\* summarization completing in that step, and each client has exactly as
\* many version rows as summarizations completed for it.
C11_VersionsAppendOnly ==
    [][/\ Len(summary_versions') \in {Len(summary_versions), Len(summary_versions) + 1}
       /\ SubSeq(summary_versions', 1, Len(summary_versions)) = summary_versions
       /\ Len(summary_versions') > Len(summary_versions) =>
              \E w \in Workers :
                  /\ pc[w] = "insert_version"
                  /\ summary_versions'[Len(summary_versions')] =
                         [client_id |-> Item(w).client_id,
                          summary_snapshot |-> summary[w]]
                  /\ lastUpsert[Item(w).client_id] = {summary[w]}
       /\ \A c \in Clients : Len(VersionsOf(c))' = Cardinality(Summarized(c))'
      ]_vars

\* Two summarizations of one client have completed: two version rows.
C11_Witness ==
    \E c \in Clients :
        /\ Len(VersionsOf(c)) = 2
        /\ Cardinality(Summarized(c)) = 2
        /\ VersionsOf(c)[1].summary_snapshot # VersionsOf(c)[2].summary_snapshot


\* The calls of process_item before the flag is written.
BeforeFlag == {"insert_chunk", "embed_text", "insert_embedding", "mark_processed"}

Selectable(i) == \E n \in 1..Len(SelectUnprocessed) : SelectUnprocessed[n].id = i

\* C12: an item whose attempt raised before the flag write is not flagged and
\* is returned by the next select; with main() invoked again and again and
\* the external calls succeeding from some point on, every item whose flag
\* is false or absent is eventually flagged.
C12_UnprocessedEventuallyProcessed ==
    /\ [](\A w \in Workers :
              (outcome[w] = "raised" /\ failure[w].at \in BeforeFlag) =>
                  (~IsProcessed(failure[w].item) /\ Selectable(failure[w].item)))
    /\ \A i \in ItemIds : (~IsProcessed(i)) ~> IsProcessed(i)

\* An item is flagged after an attempt on it raised and left a chunk row.
C12_Witness ==
    /\ failures >= 1
    /\ \E i \in ItemIds :
           /\ IsProcessed(i)
           /\ Len(ChunkRowsOf(i)) > Len(ChunksOfItem(i))


\* An item whose raw text holds no word.
Blank(i) == \A n \in 1..Len(knowledge_items[i].raw_text) :
                knowledge_items[i].raw_text[n] \in Whitespace

\* C13: for an item whose raw text is empty or only whitespace, process_item
\* inserts no chunk row and no embedding row and makes no embedding call (it
\* goes from chunk_text straight to the flag write), and once the flag is
\* true generate_summary has been called for the item.
C13_BlankItemGoesStraightToFlag ==
    \A i \in ItemIds :
        Blank(i) =>
            /\ ChunkIdsOf(i) = {}
            /\ EmbeddingRowsOf(i) = <<>>
            /\ \A w \in Workers :
                   (outcome[w] = "running" /\ Item(w).id = i) =>
                       /\ pc[w] \in {"mark_processed"} \cup AfterFlag
                       /\ chunks[w] = <<>>
                       /\ Len(knowledge_chunks) = base[w].chunks
                       /\ Len(knowledge_embeddings) = base[w].embeddings
            /\ IsProcessed(i) => invoked[i] = 1
            /\ invoked[i] = 1 => IsProcessed(i)

\* A whitespace-only item is flagged and its summarization is under way.
C13_Witness ==
    /\ pc[1] = "chat_completion"
    /\ knowledge_items[Item(1).id].raw_text = <<SPACE>>
    /\ IsProcessed(Item(1).id)
    /\ invoked[Item(1).id] = 1


\* C14: for a text of W words and threshold T, chunk_text returns exactly
\* ceil(W/T) chunks, every chunk but the last holds exactly T words, and the
\* last holds the remaining words and is not empty.  (Stated as claimed; the
\* code closes a chunk at T + 1 words.)
C14_ChunkCountIsCeiling ==
    ct.returned =>
        LET W == Len(split(ct.text))
            T == ct.max_tokens
            n == Len(ct.result)
        IN /\ n = (W + T - 1) \div T
           /\ \A k \in 1..(n - 1) : Len(split(ct.result[k])) = T
           /\ n > 0 => /\ Len(split(ct.result[n])) = W - T * (n - 1)
                       /\ Len(split(ct.result[n])) > 0

\* C15: the chunks returned by chunk_text, joined in index order by single
\* blanks, are the words of the input joined by single blanks: no word is
\* lost, duplicated, reordered or split.
C15_ChunksReproduceWords ==
    ct.returned =>
        /\ join(<<SPACE>>, ct.result) = join(<<SPACE>>, split(ct.text))
        /\ split(join(<<SPACE>>, ct.result)) = split(ct.text)

\* A text with leading whitespace was cut into a full chunk and a trailing
\* partial one.
C15_Witness ==
    /\ ct.returned
    /\ Len(ct.result) >= 2
    /\ ct.text # <<>> /\ ct.text[1] = SPACE
    /\ Len(split(ct.result[Len(ct.result)])) <= ct.max_tokens


\* The parts of a corpus between blank lines (two newlines), in order.
RECURSIVE paragraphsFrom(_, _, _, _)
paragraphsFrom(text, i, part, acc) ==
    IF i > Len(text) THEN (IF part = <<>> THEN acc ELSE Append(acc, part))
    ELSE IF i < Len(text) /\ text[i] = NL /\ text[i + 1] = NL
         THEN paragraphsFrom(text, i + 2, <<>>, Append(acc, part))
         ELSE paragraphsFrom(text, i + 1, Append(part, text[i]), acc)

Paragraphs(text) == paragraphsFrom(text, 1, <<>>, <<>>)

\* How often each value occurs in a sequence.
Occurrences(seq) ==
    [x \in {seq[k] : k \in 1..Len(seq)} |->
        Cardinality({k \in 1..Len(seq) : seq[k] = x})]

\* C16: the corpus generate_summary(c) sends to the model is made of exactly
\* the contents of the knowledge_chunks rows whose client_id is c at the time
\* of the call, each as often as it is stored: the rows of every item of c
\* are in it, not only those of the item just processed, and no row of
\* another client is.
C16_CorpusIsClientsChunks ==
    \A w \in Workers :
        pc[w] = "chat_completion" =>
            LET c == Item(w).client_id
                mine == {k \in 1..Len(knowledge_chunks) :
                            knowledge_chunks[k].client_id = c}
                stored == {knowledge_chunks[k].content : k \in mine}
            IN Occurrences(Paragraphs(corpus[w])) =
                   [x \in stored |->
                       Cardinality({k \in mine : knowledge_chunks[k].content = x})]

\* The corpus of a call holds the chunks of another item of the same client.
C16_Witness ==
    /\ pc[1] = "chat_completion"
    /\ \E k \in 1..Len(knowledge_chunks) :
          /\ knowledge_chunks[k].client_id = Item(1).client_id
          /\ knowledge_chunks[k].item_id # Item(1).id
    /\ Len(Paragraphs(corpus[1])) > Len(ChunkRowsOf(Item(1).id))


\* The list fields and the text fields of the payload, with their columns.
ListFields == {<<"Key Insights", "key_insights">>, <<"Next Actions", "next_actions">>,
               <<"Risks", "risks">>, <<"Opportunities", "opportunities">>}

TextFields == {<<"Short Summary", "short_summary">>, <<"Long Summary", "long_summary">>}

\* C17: when the payload lacks some summary fields the summary is still
\* upserted, with every missing list field stored as empty, every missing
\* text field stored as the empty string, and a missing sentiment and
\* priority score stored as null.  (Stated as claimed; the code stores a
\* missing text field as null.)
C17_MissingFieldsGetDefaults ==
    \A c \in Clients :
        lastUpsert[c] # None =>
            LET p == CHOOSE x \in lastUpsert[c] : TRUE IN
            /\ \E r \in client_summaries : r.client_id = c
            /\ \A r \in client_summaries :
                  r.client_id = c =>
                      /\ \A f \in ListFields :
                             f[1] \notin DOMAIN p => r[f[2]] = <<>>
                      /\ \A f \in TextFields :
                             f[1] \notin DOMAIN p => r[f[2]] = {<<>>}
                      /\ "Sentiment" \notin DOMAIN p => r.sentiment = None
                      /\ "Priority Score" \notin DOMAIN p => r.priority_score = None

\* C18: the priority_score of every client_summaries row is absent or an
\* integer in 1..10.  (Stated as claimed; the code stores the model's value
\* as it came.)
C18_PriorityScoreInRange ==
    \A r \in client_summaries :
        \A v \in r.priority_score : v \in 1..10

\* C19: the sentiment of every client_summaries row is absent or one of
\* positive, neutral, negative.  (Stated as claimed; the code stores the
\* model's value as it came.)
C19_SentimentEnumerated ==
    \A r \in client_summaries :
        \A v \in r.sentiment : v \in {"positive", "neutral", "negative"}


\* C20: client_summaries holds at most one row per client identifier,
\* however many items of the client were processed and however many
\* summarizations ran.
C20_OneSummaryRowPerClient ==
    \A c \in Clients :
        Cardinality({r \in client_summaries : r.client_id = c}) <= 1

\* Two items of one client were processed, their summarizations upserted
\* different payloads, and the client has one row.
C20_Witness ==
    \E c \in Clients :
        /\ \A i \in ItemIds : knowledge_items[i].client_id = c /\ IsProcessed(i)
        /\ \E m, n \in 1..Len(summary_versions) :
              /\ summary_versions[m].client_id = c
              /\ summary_versions[n].client_id = c
              /\ summary_versions[m].summary_snapshot # summary_versions[n].summary_snapshot
        /\ Cardinality({r \in client_summaries : r.client_id = c}) = 1


\* C21: the only change a step makes to a knowledge_items row is setting
\* processed to true in its metadata: a flag that is true stays true, the
\* other metadata keys and the other columns keep their values, and no row
\* is deleted.
C21_ItemsOnlyGetFlagged ==
    [][\A i \in ItemIds :
          /\ i \in DOMAIN knowledge_items'
          /\ IsProcessed(i) => knowledge_items'[i] = knowledge_items[i]
          /\ knowledge_items'[i] # knowledge_items[i] =>
                /\ knowledge_items'[i].id = knowledge_items[i].id
                /\ knowledge_items'[i].client_id = knowledge_items[i].client_id
                /\ knowledge_items'[i].raw_text = knowledge_items[i].raw_text
                /\ DOMAIN knowledge_items'[i].metadata =
                       DOMAIN knowledge_items[i].metadata \cup {"processed"}
                /\ knowledge_items'[i].metadata["processed"] = TRUE
                /\ \A k \in DOMAIN knowledge_items[i].metadata \ {"processed"} :
                       knowledge_items'[i].metadata[k] = knowledge_items[i].metadata[k]
     ]_vars

\* A flagged item, its other metadata kept, has been through a later run of
\* main() that followed a failed summarization.
C21_Witness ==
    \E i \in ItemIds :
        /\ IsProcessed(i)
        /\ knowledge_items[i].metadata["source"] = "upload"
        /\ i \in summaryFailed
        /\ outcome[1] = "complete"


\* A table that only grows: the rows it held are still there, unchanged and
\* at their places.
OnlyAppended(old, new) ==
    /\ Len(new) >= Len(old)
    /\ SubSeq(new, 1, Len(old)) = old

\* C22: knowledge_chunks and knowledge_embeddings are append-only: no step,
\* a raise and the retry of an item included, changes or removes a row that
\* was inserted.
C22_ChunkTablesAppendOnly ==
    [][/\ OnlyAppended(knowledge_chunks, knowledge_chunks')
       /\ OnlyAppended(knowledge_embeddings, knowledge_embeddings')]_vars

\* An attempt raised after it inserted a chunk row, and the retry of the
\* item has inserted its chunks after the rows of the failed attempt.
C22_Witness ==
    /\ failures >= 1
    /\ outcome[1] = "running"
    /\ pc[1] = "mark_processed"
    /\ Len(chunks[1]) >= 1
    /\ Len(ChunkRowsOf(Item(1).id)) > Len(chunks[1])
    /\ Len(EmbeddingRowsOf(Item(1).id)) >= Len(chunks[1])


\* Worker w has upserted the summary of client c and not yet appended its
\* version.
BetweenSummaryWrites(w, c) ==
    pc[w] = "insert_version" /\ Item(w).client_id = c

\* The row derived from the snapshot of the client's last version row.
HeadOfHistory(c) ==
    IF VersionsOf(c) = <<>> THEN {}
    ELSE {SummaryRow(c, VersionsOf(c)[Len(VersionsOf(c))].summary_snapshot)}

\* C23: when two runs summarize the same client at the same time, the upsert
\* and the append of one summarization are not separated by a write of the
\* other (the two are never both between their upsert and their append), and
\* once both are through the client's row is the one derived from the last
\* appended version.  Raises are left aside (failures = 0).  (Stated as
\* claimed; the code takes no lock.)
C23_SummaryWritesDoNotInterleave ==
    failures = 0 =>
        \A c \in Clients :
            /\ \A w, v \in Workers :
                   (BetweenSummaryWrites(w, c) /\ BetweenSummaryWrites(v, c)) => w = v
            /\ (\A w \in Workers : ~BetweenSummaryWrites(w, c)) =>
                   {r \in client_summaries : r.client_id = c} = HeadOfHistory(c)

\* Worker w is inside process_item on item i.
ProcessingItem(w, i) == outcome[w] = "running" /\ Item(w).id = i

\* C29: when two sweeps overlap no item is processed by both: the two are
\* never inside process_item on the same item, and without raises an item
\* has no more chunk rows and embedding rows than it has chunks.  (Stated as
\* claimed; the code does not claim an item before it works on it.)
C29_NoItemProcessedTwice ==
    failures = 0 =>
        \A i \in ItemIds :
            /\ \A w, v \in Workers :
                   (ProcessingItem(w, i) /\ ProcessingItem(v, i)) => w = v
            /\ Len(ChunkRowsOf(i)) <= Len(ChunksOfItem(i))
            /\ Len(EmbeddingRowsOf(i)) <= Len(ChunksOfItem(i))


\* No item was selected and no row was written or changed.
NothingDone ==
    /\ \A w \in Workers : items[w] = <<>> /\ attempted[w] = {}
    /\ knowledge_chunks = <<>>
    /\ knowledge_embeddings = <<>>
    /\ client_summaries = {}
    /\ summary_versions = <<>>
    /\ \A i \in ItemIds : ~IsProcessed(i)

\* C24: under a configuration failure (a missing credential, or a store
\* whose vector dimension is not the embedding model's) the run aborts at
\* startup: no item is ever selected and no chunk, embedding, flag or summary
\* write is made.  (Stated as claimed; the code meets a dimension mismatch
\* only at the embedding insert of an item.)
C24_ConfigurationFailureAtStartup ==
    (~EnvironmentLoaded \/ env.store_dimension # EmbeddingDimension) => NothingDone

\* The part of C24 that the environment section does enforce.
MissingKeyStopsAtStartup == ~EnvironmentLoaded => NothingDone


\* C25: within one attempt on an item the chunk rows are inserted in index
\* order from 0 without gaps, and the row of index k + 1 is inserted only
\* after the chunk row and the embedding row of index k: the rows the attempt
\* has inserted so far carry the indices 0, 1, 2, ... in insertion order, each
\* embedding row refers to the chunk row of its position, the embeddings are
\* at most one behind the chunks and level with them whenever the next chunk
\* insert is due.
C25_ChunksPersistedInIndexOrder ==
    \A w \in Workers :
        outcome[w] = "running" =>
            LET n == Len(knowledge_chunks) - base[w].chunks
                m == Len(knowledge_embeddings) - base[w].embeddings
            IN /\ \A j \in 1..n :
                      /\ knowledge_chunks[base[w].chunks + j].chunk_index = j - 1
                      /\ knowledge_chunks[base[w].chunks + j].item_id = Item(w).id
               /\ m \in {n - 1, n} /\ m >= 0
               /\ \A j \in 1..m :
                      knowledge_embeddings[base[w].embeddings + j].chunk_id =
                          knowledge_chunks[base[w].chunks + j].id
               /\ pc[w] = "insert_chunk" => (m = n /\ idx[w] = n)
               /\ pc[w] \in {"embed_text", "insert_embedding"} =>
                      (m = n - 1 /\ idx[w] = m)

\* The third chunk of an item is about to be inserted: the rows of indices 0
\* and 1 and their embeddings are stored.
C25_Witness ==
    /\ outcome[1] = "running"
    /\ pc[1] = "insert_chunk"
    /\ idx[1] = 2
    /\ Len(knowledge_chunks) - base[1].chunks = 2
    /\ Len(knowledge_embeddings) - base[1].embeddings = 2


\* C26: generate_summary is called exactly once for every item whose flag
\* was written and never for an item whose flag write has not happened: the
\* calls made for an item are one if its flag is true and none otherwise, and
\* a worker is in the summary part only of an item whose flag is true.
C26_SummarizedOnceAfterFlag ==
    /\ \A i \in ItemIds : invoked[i] = IF IsProcessed(i) THEN 1 ELSE 0
    /\ \A w \in Workers :
           outcome[w] = "running" =>
               /\ pc[w] \in AfterFlag =>
                      (IsProcessed(Item(w).id) /\ invoked[Item(w).id] = base[w].invoked + 1)
               /\ pc[w] \notin AfterFlag =>
                      (~IsProcessed(Item(w).id) /\ invoked[Item(w).id] = 0)

\* Both items are flagged, each summarized once, one of them on the retry
\* that followed a failed attempt which had already inserted a chunk row.
C26_Witness ==
    /\ failures >= 1
    /\ \A i \in ItemIds : IsProcessed(i) /\ invoked[i] = 1
    /\ \E i \in ItemIds : Len(ChunkRowsOf(i)) > Len(ChunksOfItem(i))
    /\ summaryFailed = {}
    /\ outcome[1] = "complete"


\* The calls process_item makes on an item with n chunks of which i are
\* done, counted from the call at position p on.
CallsLeft(p, n, i) ==
    IF p = "insert_chunk" THEN 3 * (n - i) + 5
    ELSE IF p = "embed_text" THEN 3 * (n - i) + 4
    ELSE IF p = "insert_embedding" THEN 3 * (n - i) + 3
    ELSE IF p = "mark_processed" THEN 5
    ELSE IF p = "select_chunks" THEN 4
    ELSE IF p = "chat_completion" THEN 3
    ELSE IF p = "upsert_summary" THEN 2
    ELSE IF p = "insert_version" THEN 1
    ELSE 0

\* The calls a sweep over its[k..] makes at most.
RECURSIVE CallsFor(_, _)
CallsFor(its, k) ==
    IF k > Len(its) THEN 0
    ELSE 3 * Len(chunk_text(its[k].raw_text, DefaultMaxTokens)) + 5
         + CallsFor(its, k + 1)

\* The calls the sweep of worker w has left at most.
SweepBudget(w) ==
    IF pc[w] = "start" THEN 0
    ELSE CallsLeft(pc[w], Len(chunks[w]), idx[w]) + CallsFor(items[w], cur[w] + 1)

\* C27: a sweep reads the unprocessed items once, at its start; it attempts
\* the selected items one after the other, each at most once (after a raise
\* the sweep is over, the item is not tried again in it); and it ends after a
\* bounded number of steps: every step of a sweep lowers the number of calls
\* it can still make, which starts at 3 per chunk plus 5 per selected item.
C27_SweepIsSinglePass ==
    [][\A w \in Workers :
          /\ items'[w] # items[w] => pc[w] = "start"
          /\ \A k, l \in 1..Len(items'[w]) :
                 items'[w][k].id = items'[w][l].id => k = l
          /\ (pc[w] = "start" /\ pc'[w] # "start") =>
                 /\ cur'[w] = 1
                 /\ attempted'[w] = {items'[w][1].id}
                 /\ SweepBudget(w)' <= CallsFor(items'[w], 1)
          /\ pc[w] # "start" =>
                 /\ cur'[w] \in {cur[w], cur[w] + 1}
                 /\ attempted'[w] \ attempted[w] =
                        IF cur'[w] = cur[w] + 1 /\ cur'[w] <= Len(items[w])
                        THEN {items[w][cur'[w]].id} ELSE {}
                 /\ (pc'[w] # pc[w] \/ cur'[w] # cur[w]) =>
                        SweepBudget(w)' < SweepBudget(w)
                 /\ outcome'[w] = "raised" => pc'[w] = "start"
      ]_vars

\* A sweep that selected both items has attempted both and is complete.
C27_Witness ==
    /\ outcome[1] = "complete"
    /\ Len(items[1]) = 2
    /\ attempted[1] = {items[1][1].id, items[1][2].id}
    /\ \A k \in 1..2 : IsProcessed(items[1][k].id)


\* C28: also when summary writes fail, whenever a client has a
\* client_summaries row and no summarization of the client is between its
\* two writes, the row is the one derived from the snapshot of the client's
\* most recent summary_versions row.  (Stated as claimed; in the code the
\* upsert stays when the version insert raises.)
C28_SummaryIsHeadOfHistory ==
    \A c \in Clients :
        (\A w \in Workers : ~BetweenSummaryWrites(w, c)) =>
            \A r \in client_summaries :
                r.client_id = c => r \in HeadOfHistory(c)


\* C30: a step of process_item on an item of client a writes only rows of
\* client a: a chunk row it inserts carries the item's id and client_id, an
\* embedding row it inserts carries the item's client_id, which is that of
\* the chunk row it refers to; the client_summaries row and the
\* summary_versions rows of every other client stay as they are, and so do
\* the item's metadata keys other than processed and every other item.
C30_WritesOnlyOwnClient ==
    [][\A w \in Workers :
          (pc[w] # "start" /\ pc'[w] # pc[w]) =>
              LET a == Item(w).client_id IN
              /\ \A k \in (Len(knowledge_chunks) + 1)..Len(knowledge_chunks') :
                     /\ knowledge_chunks'[k].client_id = a
                     /\ knowledge_chunks'[k].item_id = Item(w).id
              /\ \A e \in (Len(knowledge_embeddings) + 1)..Len(knowledge_embeddings') :
                     /\ knowledge_embeddings'[e].client_id = a
                     /\ \E k \in 1..Len(knowledge_chunks) :
                            /\ knowledge_chunks[k].id = knowledge_embeddings'[e].chunk_id
                            /\ knowledge_chunks[k].client_id = a
              /\ \A c \in Clients \ {a} :
                     /\ {r \in client_summaries' : r.client_id = c} =
                            {r \in client_summaries : r.client_id = c}
                     /\ VersionsOf(c)' = VersionsOf(c)
              /\ \A i \in ItemIds \ {Item(w).id} : knowledge_items'[i] = knowledge_items[i]
              /\ \A k \in DOMAIN knowledge_items[Item(w).id].metadata \ {"processed"} :
                     /\ k \in DOMAIN knowledge_items'[Item(w).id].metadata
                     /\ knowledge_items'[Item(w).id].metadata[k] =
                            knowledge_items[Item(w).id].metadata[k]
      ]_vars

\* The items of the two clients were processed one after the other and each
\* client has its summary row and its version row.
C30_Witness ==
    /\ knowledge_items[1].client_id # knowledge_items[2].client_id
    /\ \A i \in ItemIds : IsProcessed(i) /\ ChunkRowsOf(i) # <<>>
    /\ \A c \in Clients :
          /\ \E r \in client_summaries : r.client_id = c
          /\ Len(VersionsOf(c)) = 1

====
